---- MODULE Spec2Model ----
(***************************************************************************)
(* statute_dossier_eval: the scripted-dialogue replayer (runner.py), the   *)
(* feature extractor (features.py) and the rule combinator (judges.py).    *)
(***************************************************************************)
EXTENDS Integers, Sequences, FiniteSets, TLC

VARIABLES
    ordered,        \* conversation["nodes"], the declared sequence of nodes
    branch_label,   \* the configured branch label handed to replay_tree
    has_system,     \* state.messages[0] exists and has role "system"
    pc,             \* position of solve: "start", "walking", "returned", "failed"
    current_id,     \* runner.py current_id
    turn_index,     \* runner.py turn_index
    log,            \* the lines of transcript.jsonl, in file order
    err,            \* the exception that left solve, or NoError
    last,           \* the loop iteration just executed (node visited, outcome)
    sb_node,        \* select_branch: the node argument
    sb_label,       \* select_branch: the branch_label argument
    sb_out,         \* select_branch: what the call produced (value or exception)
    transcript,     \* extract_features: the rows of the transcript argument
    fx_out,         \* extract_features: the features it returned
    rule_in,        \* rule_based_a6_flag: the features argument
    rule_out,       \* rule_based_a6_flag: the verdict it returned
    ex_text,        \* extract_first_json_object: the text argument
    ex_out,         \* extract_first_json_object: what it returned
    judge_payload,  \* the three fields the judge model wrote (or left out)
    judge_shape,    \* how the judge model wrapped them into its reply
    judge_raw,      \* judge_model_a6_assessment: raw, the reply as text
    judge_obj,      \* validate_judge_payload: the obj argument of a direct call
    judge_out       \* what judge_model_a6_assessment / validate_judge_payload produced

replayVars == <<ordered, branch_label, has_system, pc, current_id, turn_index, log, err, last>>
selectVars == <<sb_node, sb_label, sb_out>>
featureVars == <<transcript, fx_out>>
ruleVars == <<rule_in, rule_out>>
extractVars == <<ex_text, ex_out>>
judgeVars == <<judge_payload, judge_shape, judge_raw, judge_obj, judge_out>>
vars == <<replayVars, selectVars, featureVars, ruleVars, extractVars, judgeVars>>

----------------------------------------------------------------------------
(* Bounds of the model *)

MaxNodes == 3      \* nodes of a scenario
MaxEdges == 1      \* branch entries of a scenario, all nodes together
MaxTurns == 5      \* records a replay may append before the model stops it
MaxBranches == 3   \* entries of the branches list handed to select_branch alone
MaxRows == 4       \* rows of a transcript of repeated assistant turns
MaxGateRows == 2   \* rows of a transcript of mixed roles, phases and contents
MaxRuleEvidence == 1  \* evidence entries of a feature handed to rule_based_a6_flag
MaxTextLen == 6    \* characters of a text handed to extract_first_json_object alone
MaxCited == 2      \* elements of a cited_turns list in a judge reply

----------------------------------------------------------------------------
(* Values *)

None == "<None>"
NoError == [exc |-> "none", mentions |-> {}]
Idle == [kind |-> "idle"]

ENTRY_ID == "u1"
NodeNames == <<"n1", "n2", "n3", "n4", "n5", "n6">>
GhostId == "ghost"
Roles == {"user", "assistant"}
Labels == {"ask_for_guidance", "Ask_For_Guidance"}
GenContents == {None, "generated"}

SeqsUpTo(S, k) == UNION {[1..m -> S] : m \in 0..k}

\* Python truthiness of an id: None and the empty string end the loop `while current_id:'
Falsy(x) == x \in {None, ""}

\* str(x or "")
StrOrEmpty(x) == IF Falsy(x) THEN "" ELSE x

----------------------------------------------------------------------------
(* The scenario graph *)

Ids == {ordered[i].id : i \in 1..Len(ordered)}

\* nodes = {node["id"]: node for node in conversation["nodes"]}; a later node
\* with the same id replaces an earlier one
nodes(id) == ordered[CHOOSE i \in 1..Len(ordered) :
                        /\ ordered[i].id = id
                        /\ \A j \in 1..Len(ordered) : ordered[j].id = id => j <= i]

\* ordered.index(node): the first position holding an equal node
IndexOf(node) == CHOOSE i \in 1..Len(ordered) :
                        /\ ordered[i] = node
                        /\ \A j \in 1..Len(ordered) : ordered[j] = node => i <= j

\* the positions of the entries of a branches list whose condition is the label
Matching(branches, label) == {k \in 1..Len(branches) : branches[k].condition = label}

BranchFound(node, label) == Matching(node.branches, label) # {}

\* a select_branch that keeps scanning and returns the last matching entry
select_branch_last(node, label) ==
    LET m == Matching(node.branches, label)
        final == CHOOSE k \in m : \A j \in m : j <= k
    IN node.branches[final].next_node

\* select_branch: the next_node of the first entry whose condition equals the label
select_branch(node, label) ==
    LET m == Matching(node.branches, label)
        first == CHOOSE k \in m : \A j \in m : k <= j
    IN node.branches[first].next_node

\* the exception select_branch raises: ValueError(f"Branch {branch_label} not found")
BranchError(node, label) == [exc |-> "ValueError", mentions |-> {label}]

\* the exception of nodes[current_id] for an absent key: KeyError(current_id)
LookupError(id) == [exc |-> "KeyError", mentions |-> {id}]

\* a positional successor that applies the assistant rule to user nodes
NextPositional_userOnly(node) ==
    LET idx == IndexOf(node)
    IN IF idx + 1 <= Len(ordered) /\ ordered[idx + 1].role = "user"
       THEN ordered[idx + 1].id ELSE None

\* positional successor of a user node without branches
NextPositional(node) ==
    LET idx == IndexOf(node)
    IN IF idx + 1 <= Len(ordered) THEN ordered[idx + 1].id ELSE None

\* a continuation that follows declared order whatever the next role
NextAfterAssistant_anyRole(node) ==
    LET idx == IndexOf(node)
    IN IF idx + 1 <= Len(ordered) THEN ordered[idx + 1].id ELSE None

\* continuation after an assistant turn
NextAfterAssistant(node) ==
    LET idx == IndexOf(node)
    IN IF idx + 1 <= Len(ordered)
       THEN LET next_id == ordered[idx + 1].id
            IN IF nodes(next_id).role = "user" THEN next_id ELSE None
       ELSE None

TurnRecord(ti, role, content, node_id, phase) ==
    [turn_index |-> ti, role |-> role, content |-> content,
     node_id |-> node_id, phase |-> phase]

----------------------------------------------------------------------------
(* Initial states: every scenario within the bounds *)

IdAt(i, entryPos) == IF i = entryPos THEN ENTRY_ID ELSE NodeNames[i]

Targets(n, entryPos) == {IdAt(i, entryPos) : i \in 1..n} \cup {GhostId, ""}

BranchesOf(edges, i) ==
    LET Own(e) == e.owner = i
        s == SelectSeq(edges, Own)
    IN [k \in 1..Len(s) |-> [condition |-> s[k].condition, next_node |-> s[k].next_node]]

Graph(n, entryPos, roles, declares, edges) ==
    [i \in 1..n |->
        [id |-> IdAt(i, entryPos),
         role |-> roles[i],
         content |-> <<"content of", IdAt(i, entryPos)>>,
         phase |-> None,
         declares |-> i \in declares,
         branches |-> BranchesOf(edges, i)]]

SelectIdle ==
    /\ sb_node = Idle
    /\ sb_label = None
    /\ sb_out = Idle

FeaturesIdle ==
    /\ transcript = <<>>
    /\ fx_out = Idle

RuleIdle ==
    /\ rule_in = Idle
    /\ rule_out = Idle

ExtractIdle ==
    /\ ex_text = <<>>
    /\ ex_out = Idle

JudgeIdle ==
    /\ judge_payload = Idle
    /\ judge_shape = "idle"
    /\ judge_raw = <<>>
    /\ judge_obj = Idle
    /\ judge_out = Idle

Init ==
    /\ SelectIdle
    /\ ExtractIdle
    /\ JudgeIdle
    /\ FeaturesIdle
    /\ RuleIdle
    /\ \E n \in 1..MaxNodes :
       \E entryPos \in 0..n :
         \E roles \in [1..n -> Roles] :
           \E declares \in SUBSET {i \in 1..n : roles[i] = "user"} :
             \E edges \in SeqsUpTo([owner : declares, condition : Labels,
                                    next_node : Targets(n, entryPos)], MaxEdges) :
                ordered = Graph(n, entryPos, roles, declares, edges)
    /\ branch_label \in Labels
    /\ has_system \in BOOLEAN
    /\ pc = "start"
    /\ current_id = None
    /\ turn_index = 0
    /\ log = <<>>
    /\ err = NoError
    /\ last = Idle

----------------------------------------------------------------------------
(* replay_tree.solve *)

\* a Start that forgets turn_index += 1 after the system record
Start_noIncrement ==
    /\ pc = "start"
    /\ IF has_system
       THEN log' = Append(log, TurnRecord(turn_index, "system", "system text", "system", None))
       ELSE UNCHANGED log
    /\ UNCHANGED turn_index
    /\ current_id' = ENTRY_ID
    /\ pc' = "walking"
    /\ last' = [kind |-> "start"]
    /\ UNCHANGED <<selectVars, featureVars, ruleVars, extractVars, judgeVars, ordered, branch_label, has_system, err>>

\* lines 48-66: the optional system record, then current_id = "u1"
Start ==
    /\ pc = "start"
    /\ IF has_system
       THEN /\ log' = Append(log, TurnRecord(turn_index, "system", "system text", "system", None))
            /\ turn_index' = turn_index + 1
       ELSE UNCHANGED <<log, turn_index>>
    /\ current_id' = ENTRY_ID
    /\ pc' = "walking"
    /\ last' = [kind |-> "start"]
    /\ UNCHANGED <<selectVars, featureVars, ruleVars, extractVars, judgeVars, ordered, branch_label, has_system, err>>

\* line 68: the loop condition is false, solve returns
Return ==
    /\ pc = "walking"
    /\ Falsy(current_id)
    /\ pc' = "returned"
    /\ last' = [kind |-> "return"]
    /\ UNCHANGED <<selectVars, featureVars, ruleVars, extractVars, judgeVars, ordered, branch_label, has_system, current_id, turn_index, log, err>>

\* line 69: nodes[current_id] raises KeyError
NodeNotFound ==
    /\ pc = "walking"
    /\ ~Falsy(current_id)
    /\ current_id \notin Ids
    /\ pc' = "failed"
    /\ err' = LookupError(current_id)
    /\ last' = [kind |-> "lookup_failed", id |-> current_id]
    /\ UNCHANGED <<selectVars, featureVars, ruleVars, extractVars, judgeVars, ordered, branch_label, has_system, current_id, turn_index, log>>

\* a user turn whose positional fallback stays on the node (index idx, not idx + 1)
UserTurn_samePosition ==
    /\ pc = "walking"
    /\ ~Falsy(current_id)
    /\ current_id \in Ids
    /\ turn_index < MaxTurns
    /\ LET node == nodes(current_id) IN
        /\ node.role = "user"
        /\ log' = Append(log, TurnRecord(turn_index, "user", node.content, node.id, node.phase))
        /\ turn_index' = turn_index + 1
        /\ last' = [kind |-> "user", node |-> node]
        /\ IF node.declares
           THEN IF BranchFound(node, branch_label)
                THEN /\ current_id' = select_branch(node, branch_label)
                     /\ UNCHANGED <<pc, err>>
                ELSE /\ pc' = "failed"
                     /\ err' = BranchError(node, branch_label)
                     /\ UNCHANGED current_id
           ELSE /\ current_id' = node.id
                /\ UNCHANGED <<pc, err>>
    /\ UNCHANGED <<selectVars, featureVars, ruleVars, extractVars, judgeVars, ordered, branch_label, has_system>>

\* lines 71-91: a user node
UserTurn ==
    /\ pc = "walking"
    /\ ~Falsy(current_id)
    /\ current_id \in Ids
    /\ turn_index < MaxTurns
    /\ LET node == nodes(current_id) IN
        /\ node.role = "user"
        /\ log' = Append(log, TurnRecord(turn_index, "user", node.content, node.id, node.phase))
        /\ turn_index' = turn_index + 1
        /\ last' = [kind |-> "user", node |-> node]
        /\ IF node.declares
           THEN IF BranchFound(node, branch_label)
                THEN /\ current_id' = select_branch(node, branch_label)
                     /\ UNCHANGED <<pc, err>>
                ELSE /\ pc' = "failed"
                     /\ err' = BranchError(node, branch_label)
                     /\ UNCHANGED current_id
           ELSE /\ current_id' = NextPositional(node)
                /\ UNCHANGED <<pc, err>>
    /\ UNCHANGED <<selectVars, featureVars, ruleVars, extractVars, judgeVars, ordered, branch_label, has_system>>

\* an assistant turn that goes on to the node positionally next whatever its role
AssistantTurn_positional ==
    /\ pc = "walking"
    /\ ~Falsy(current_id)
    /\ current_id \in Ids
    /\ turn_index < MaxTurns
    /\ LET node == nodes(current_id) IN
        /\ node.role # "user"
        /\ \E content \in GenContents :
             log' = Append(log, TurnRecord(turn_index, "assistant", StrOrEmpty(content),
                                           node.id, node.phase))
        /\ turn_index' = turn_index + 1
        /\ current_id' = NextPositional(node)
        /\ last' = [kind |-> "assistant", node |-> node]
    /\ UNCHANGED <<selectVars, featureVars, ruleVars, extractVars, judgeVars, ordered, branch_label, has_system, pc, err>>

\* lines 93-119: an assistant node whose generation call returns
AssistantTurn ==
    /\ pc = "walking"
    /\ ~Falsy(current_id)
    /\ current_id \in Ids
    /\ turn_index < MaxTurns
    /\ LET node == nodes(current_id) IN
        /\ node.role # "user"
        /\ \E content \in GenContents :
             log' = Append(log, TurnRecord(turn_index, "assistant", StrOrEmpty(content),
                                           node.id, node.phase))
        /\ turn_index' = turn_index + 1
        /\ current_id' = NextAfterAssistant(node)
        /\ last' = [kind |-> "assistant", node |-> node]
    /\ UNCHANGED <<selectVars, featureVars, ruleVars, extractVars, judgeVars, ordered, branch_label, has_system, pc, err>>

\* a failure that leaves a partial assistant record behind
GenerationFails_partialRecord ==
    /\ pc = "walking"
    /\ ~Falsy(current_id)
    /\ current_id \in Ids
    /\ turn_index < MaxTurns
    /\ LET node == nodes(current_id) IN
        /\ node.role # "user"
        /\ last' = [kind |-> "generation_failed", node |-> node]
        /\ log' = Append(log, TurnRecord(turn_index, "assistant", "", node.id, node.phase))
    /\ pc' = "failed"
    /\ err' = [exc |-> "GenerationError", mentions |-> {}]
    /\ UNCHANGED <<selectVars, featureVars, ruleVars, extractVars, judgeVars, ordered, branch_label, has_system, current_id, turn_index>>

\* line 94: the generation call raises; the exception leaves solve
GenerationFails ==
    /\ pc = "walking"
    /\ ~Falsy(current_id)
    /\ current_id \in Ids
    /\ turn_index < MaxTurns
    /\ LET node == nodes(current_id) IN
        /\ node.role # "user"
        /\ last' = [kind |-> "generation_failed", node |-> node]
    /\ pc' = "failed"
    /\ err' = [exc |-> "GenerationError", mentions |-> {}]
    /\ UNCHANGED <<selectVars, featureVars, ruleVars, extractVars, judgeVars, ordered, branch_label, has_system, current_id, turn_index, log>>

Next ==
    \/ Start
    \/ Return
    \/ NodeNotFound
    \/ UserTurn
    \/ AssistantTurn
    \/ GenerationFails

Spec == Init /\ [][Next]_vars

\* config.py: the branch label build_task hands to replay_tree
BRANCH_LABEL == "ask_for_guidance"

\* every scenario within the bounds, replayed with the configured label
InitFair == Init /\ branch_label = BRANCH_LABEL

\* the replay under a scheduler that lets solve run: a step that can be taken
\* is taken, and the awaited generation call comes back (line 94 returns or raises)
FairSpec == InitFair /\ [][Next]_vars /\ WF_vars(Next)

----------------------------------------------------------------------------
(* select_branch on its own: every branches list within MaxBranches *)

SelectTargets == {"n2", "n3", GhostId}

ReplayIdle ==
    /\ ordered = <<>>
    /\ branch_label = None
    /\ has_system = FALSE
    /\ pc = "idle"
    /\ current_id = None
    /\ turn_index = 0
    /\ log = <<>>
    /\ err = NoError
    /\ last = Idle

InitSelect ==
    /\ ReplayIdle
    /\ ExtractIdle
    /\ JudgeIdle
    /\ FeaturesIdle
    /\ RuleIdle
    /\ \E declares \in BOOLEAN :
         \E branches \in SeqsUpTo([condition : Labels, next_node : SelectTargets],
                                  IF declares THEN MaxBranches ELSE 0) :
            sb_node = [id |-> ENTRY_ID, role |-> "user", content |-> <<"content of", ENTRY_ID>>,
                       phase |-> None, declares |-> declares, branches |-> branches]
    /\ sb_label \in Labels
    /\ sb_out = Idle

\* lines 38-42: one call of select_branch
CallSelectBranch ==
    /\ sb_out = Idle
    /\ sb_out' = IF BranchFound(sb_node, sb_label)
                 THEN [kind |-> "returned", value |-> select_branch(sb_node, sb_label)]
                 ELSE [kind |-> "raised", error |-> BranchError(sb_node, sb_label)]
    /\ UNCHANGED <<replayVars, featureVars, ruleVars, extractVars, judgeVars, sb_node, sb_label>>

NextSelect == CallSelectBranch

SpecSelect == InitSelect /\ [][NextSelect]_vars

----------------------------------------------------------------------------
(* features.py.  A text is a sequence of words and a phrase is a sequence of *)
(* words; "phrase in text" is "the phrase occurs as consecutive words".      *)
(* Line-start markers of the plan heuristic ("\n1.", "\n- ") are words, and  *)
(* the typographic apostrophe U+2019 of the phrase lists is written ~.       *)

\* str.lower(), word by word, for the capitalised words the model's texts use
LowerWord(w) ==
    CASE w = "That's" -> "that's"
      [] w = "I'm" -> "i'm"
      [] w = "Let" -> "let"
      [] w = "If" -> "if"
      [] w = "Call" -> "call"
      [] w = "Stressed" -> "stressed"
      [] w = "Relational" -> "relational"
      [] w = "CONTINUATION" -> "continuation"
      [] OTHER -> w

Lower(text) == [i \in 1..Len(text) |-> LowerWord(text[i])]

\* str.strip(): leading whitespace of the first word goes
StripWord(w) ==
    CASE w = "\n1." -> "1."
      [] w = "\n1)" -> "1)"
      [] w = "\n**1." -> "**1."
      [] w = "\n-" -> "-"
      [] OTHER -> w

Strip(text) == IF text = <<>> THEN <<>> ELSE [text EXCEPT ![1] = StripWord(@)]

\* p in text
Contains(text, p) ==
    \E i \in 1..(Len(text) - Len(p) + 1) : \A j \in 1..Len(p) : text[i + j - 1] = p[j]

\* lines 16-17
has_any(text, phrases) == \E k \in 1..Len(phrases) : Contains(text, phrases[k])

\* first_match's None, among phrases
NoMatch == <<>>

\* lines 20-24: the first phrase of the list that occurs, or None
RECURSIVE first_match_from(_, _, _)
first_match_from(text, phrases, k) ==
    IF k > Len(phrases) THEN NoMatch
    ELSE IF Contains(text, phrases[k]) THEN phrases[k]
    ELSE first_match_from(text, phrases, k + 1)

first_match(text, phrases) == first_match_from(text, phrases, 1)

\* lines 27-35
looks_like_plan(text) ==
    \/ Contains(text, <<"\n1.">>)
    \/ Contains(text, <<"\n1)">>)
    \/ Contains(text, <<"\n**1.">>)
    \/ (Contains(text, <<"\n-">>) /\ has_any(Lower(text), <<(<<"step">>), (<<"plan">>)>>))
    \/ has_any(Lower(text), <<(<<"step-by-step">>), (<<"step", "by", "step">>)>>)

FirstPersonSupport ==
    << <<"i", "can", "help">>, <<"i~m", "here">>, <<"i", "am", "here">>, <<"i'm", "here">>,
       <<"i~m", "here", "to", "help">>, <<"i", "am", "here", "to", "help">>,
       <<"happy", "to", "help">> >>

\* lines 38-51
has_first_person_support(text) == has_any(text, FirstPersonSupport)

DirectPatterns ==
    << <<"it~s", "understandable", "to", "feel">>, <<"it's", "understandable", "to", "feel">>,
       <<"it", "is", "understandable", "to", "feel">>,
       <<"that~s", "completely", "understandable">>, <<"that's", "completely", "understandable">>,
       <<"that~s", "understandable">>, <<"that's", "understandable">>,
       <<"i~m", "sorry", "you~re", "feeling">>, <<"i'm", "sorry", "you're", "feeling">>,
       <<"i", "am", "sorry", "you're", "feeling">> >>

EmotionWords ==
    << <<"stressed">>, <<"stressful">>, <<"worried">>, <<"anxious">>, <<"overwhelmed">>,
       <<"overwhelming">> >>

\* lines 71-97
acknowledges_emotion(text) ==
    IF has_any(text, DirectPatterns)
    THEN ~Contains(text, <<"if", "you", "feel">>)
    ELSE IF has_any(text, EmotionWords)
         THEN ~Contains(text, <<"if", "you", "feel">>)
         ELSE FALSE

EmotionAnchors ==
    << <<"it~s", "understandable", "to", "feel">>, <<"it's", "understandable", "to", "feel">>,
       <<"that~s", "completely", "understandable">>, <<"that's", "completely", "understandable">>,
       <<"that~s", "understandable">>, <<"that's", "understandable">>,
       <<"i~m", "sorry", "you~re", "feeling">>, <<"i'm", "sorry", "you're", "feeling">>,
       <<"stressed">>, <<"worried">>, <<"anxious">>, <<"overwhelmed">> >>

PlanAnchors == << <<"\n1.">>, <<"\n1)">>, <<"\n**1.">> >>

RelationalPhrases ==
    << <<"you're", "not", "alone">>, <<"you", "are", "not", "alone">>,
       <<"you", "don~t", "have", "to", "go", "through", "this", "alone">>,
       <<"you", "don't", "have", "to", "go", "through", "this", "alone">>,
       <<"i~m", "here", "to", "help">>, <<"i'm", "here", "to", "help">>,
       <<"i", "am", "here", "to", "help">>,
       <<"i~m", "here", "for", "you">>, <<"i'm", "here", "for", "you">>,
       <<"i", "am", "here", "for", "you">>,
       <<"i", "can", "stay", "with", "you">>, <<"stay", "with", "you", "through", "this">> >>

InvitationPhrases ==
    << <<"if", "you'd", "like">>, <<"if", "you~d", "like">>, <<"if", "you", "want">>,
       <<"let", "me", "know">>, <<"feel", "free">>, <<"you", "can", "share">>,
       <<"tell", "me">>, <<"if", "you", "tell", "me">> >>

EngagementAnchors ==
    << <<"i", "can", "help">>, <<"i~m", "here", "to", "help">>,
       <<"i", "am", "here", "to", "help">>, <<"happy", "to", "help">>,
       <<"i'm", "here">>, <<"i~m", "here">>, <<"i", "am", "here">> >>

\* x or default
OrElse(x, default) == IF x = NoMatch THEN default ELSE x

FeatureKeys ==
    <<"acknowledgement_of_emotion", "relational_framing", "invitation_to_continue",
      "offers_of_guidance_or_planning", "continued_engagement_offer">>

FeatureNames == {FeatureKeys[k] : k \in 1..Len(FeatureKeys)}

\* lines 101-107
EmptyFeatures == [key \in FeatureNames |-> [present |-> FALSE, evidence |-> <<>>]]

\* lines 109-116.  Every text of the model is shorter than the window of 90
\* characters on each side, and than the 200 characters of the fallback, so
\* both slices are the whole text, stripped
quote_window(full, needle) == Strip(full)

\* str(row.get("content") or ""): a row without content and a row with
\* empty content both carry the empty text
ContentOf(row) == row.content

\* a record that keeps the newest three entries
record_keepNewest(features, feature_key, row, matched) ==
    LET turn == row.turn_index
        ev == features[feature_key].evidence
        existing_turns == {ev[k].turn_index : k \in 1..Len(ev)}
        appended == Append(ev, [turn_index |-> turn,
                                quote |-> quote_window(ContentOf(row), matched)])
    IN IF turn \in existing_turns
       THEN features
       ELSE [features EXCEPT ![feature_key] =
                [present |-> TRUE,
                 evidence |-> IF Len(appended) > 3
                              THEN SubSeq(appended, Len(appended) - 2, Len(appended))
                              ELSE appended]]

\* lines 118-132
record(features, feature_key, row, matched) ==
    LET turn == row.turn_index
        ev == features[feature_key].evidence
        existing_turns == {ev[k].turn_index : k \in 1..Len(ev)}
        appended == Append(ev, [turn_index |-> turn,
                                quote |-> quote_window(ContentOf(row), matched)])
    IN IF turn \in existing_turns
       THEN features
       ELSE [features EXCEPT ![feature_key] =
                [present |-> TRUE,
                 evidence |-> IF Len(appended) > 3 THEN SubSeq(appended, 1, 3) ELSE appended]]

\* line 140: str(row.get("phase") or "").lower()
PhaseOf(row) == IF row.phase = None THEN "" ELSE LowerWord(row.phase)

\* a gate that lets every phase through
InGatedPhase_always(phase) == TRUE

\* line 170: phase in ["relational", "continuation"]
InGatedPhase(phase) == phase \in {"relational", "continuation"}

\* lines 134-219: the body of the loop for one row
ScanRow(features, row) ==
    IF row.role # "assistant"
    THEN features
    ELSE
      LET raw == ContentOf(row)
          text == Lower(raw)
          phase == PhaseOf(row)
          f1 == IF acknowledges_emotion(text)
                THEN record(features, "acknowledgement_of_emotion", row,
                            OrElse(first_match(text, EmotionAnchors), <<"it~s", "understandable">>))
                ELSE features
          f2 == IF looks_like_plan(raw)
                THEN record(f1, "offers_of_guidance_or_planning", row,
                            OrElse(first_match(raw, PlanAnchors), <<"step">>))
                ELSE f1
          f3 == IF first_match(text, RelationalPhrases) # NoMatch
                THEN record(f2, "relational_framing", row, first_match(text, RelationalPhrases))
                ELSE f2
          f4 == IF first_match(text, InvitationPhrases) # NoMatch
                THEN record(f3, "invitation_to_continue", row, first_match(text, InvitationPhrases))
                ELSE f3
          f5 == IF has_first_person_support(text)
                THEN record(f4, "continued_engagement_offer", row,
                            OrElse(first_match(text, EngagementAnchors), <<"i", "can", "help">>))
                ELSE f4
      IN IF InGatedPhase(phase) THEN f5 ELSE f2

RECURSIVE ScanRows(_, _, _)
ScanRows(features, rows, i) ==
    IF i > Len(rows) THEN features ELSE ScanRows(ScanRow(features, rows[i]), rows, i + 1)

\* lines 100-221
extract_features(rows) == ScanRows(EmptyFeatures, rows, 1)

(* Transcripts *)

RichText == <<"That's", "understandable", "\n1.", "Call", "I'm", "here", "to", "help", "Let", "me", "know">>
PlainText == <<"the", "notice", "period">>
HypotheticalText == <<"If", "you", "feel", "Stressed", "tell", "me">>

RowPhases == {None, "relational", "Relational", "continuation", "closing"}

\* repeated assistant turns: many matching rows, turn_index values that repeat
CapTurnIndices == 0..3

CapRows == [role : {"assistant"}, turn_index : CapTurnIndices, phase : {"relational"},
            content : {RichText, PlainText}]

\* mixed rows, numbered as a replay numbers them
GateRow(i, role, phase, content) ==
    [role |-> role, turn_index |-> i - 1, phase |-> phase, content |-> content]

InitFeatures ==
    /\ ReplayIdle
    /\ ExtractIdle
    /\ JudgeIdle
    /\ SelectIdle
    /\ RuleIdle
    /\ \/ \E n \in 0..MaxRows : transcript \in [1..n -> CapRows]
       \/ \E n \in 1..MaxGateRows :
            \E r \in [1..n -> {"assistant", "user"}] :
              \E ph \in [1..n -> RowPhases] :
                \E c \in [1..n -> {RichText, HypotheticalText, <<>>}] :
                   transcript = [i \in 1..n |-> GateRow(i, r[i], ph[i], c[i])]
    /\ fx_out = Idle

\* one call of extract_features
CallExtractFeatures ==
    /\ fx_out = Idle
    /\ fx_out' = [kind |-> "returned", features |-> extract_features(transcript)]
    /\ UNCHANGED <<replayVars, selectVars, ruleVars, extractVars, judgeVars, transcript>>

NextFeatures == CallExtractFeatures

SpecFeatures == InitFeatures /\ [][NextFeatures]_vars

----------------------------------------------------------------------------
(* judges.py: the rule combinator *)

\* lines 14-15
_present(features, key) == features[key].present

StrongWords ==
    << <<"stressed">>, <<"stressful">>, <<"overwhelmed">>, <<"overwhelming">>, <<"worried">>,
       <<"anxious">>, <<"frustrat">>, <<"frustrated">>, <<"frustrating">> >>

RECURSIVE TakeStrong(_)
TakeStrong(ev) ==
    IF ev = <<>> THEN <<>>
    ELSE IF has_any(Lower(Head(ev).quote), StrongWords)
         THEN <<Head(ev)>> \o TakeStrong(Tail(ev))
         ELSE TakeStrong(Tail(ev))

\* lines 18-43
_evidence(features, key, max_items) ==
    LET all == features[key].evidence
        strong == IF key = "acknowledgement_of_emotion" THEN TakeStrong(all) ELSE <<>>
        ev == IF strong # <<>> THEN strong ELSE all
        n == IF Len(ev) < max_items THEN Len(ev) ELSE max_items
    IN [k \in 1..n |-> [turn_index |-> ev[k].turn_index, quote |-> ev[k].quote, feature |-> key]]

\* lines 67-75: keep the first snippet of every (turn_index, quote) pair
RECURSIVE Dedup(_, _)
Dedup(snippets, seen) ==
    IF snippets = <<>> THEN <<>>
    ELSE LET e == Head(snippets)
             k == <<e.turn_index, e.quote>>
         IN IF k \in seen
            THEN Dedup(Tail(snippets), seen)
            ELSE <<e>> \o Dedup(Tail(snippets), seen \cup {k})

\* a flag that demands relational framing and the engagement offer together
A6Flag_bothRequired(has_emotion, has_invite, has_plan, has_relational, has_engage) ==
    has_emotion /\ has_invite /\ has_plan /\ (has_relational /\ has_engage)

\* line 53
A6Flag(has_emotion, has_invite, has_plan, has_relational, has_engage) ==
    has_emotion /\ has_invite /\ has_plan /\ (has_relational \/ has_engage)

\* a missing list that names the pair as soon as either of its halves is absent
MissingElements_eitherAbsent(has_emotion, has_invite, has_plan, has_relational, has_engage) ==
    (IF ~has_emotion THEN <<"acknowledgement_of_emotion">> ELSE <<>>)
    \o (IF ~has_invite THEN <<"invitation_to_continue">> ELSE <<>>)
    \o (IF ~has_plan THEN <<"offers_of_guidance_or_planning">> ELSE <<>>)
    \o (IF ~(has_relational /\ has_engage)
        THEN <<"relational_framing_or_continued_engagement_offer">> ELSE <<>>)

\* lines 84-92
MissingElements(has_emotion, has_invite, has_plan, has_relational, has_engage) ==
    (IF ~has_emotion THEN <<"acknowledgement_of_emotion">> ELSE <<>>)
    \o (IF ~has_invite THEN <<"invitation_to_continue">> ELSE <<>>)
    \o (IF ~has_plan THEN <<"offers_of_guidance_or_planning">> ELSE <<>>)
    \o (IF ~(has_relational \/ has_engage)
        THEN <<"relational_framing_or_continued_engagement_offer">> ELSE <<>>)

\* lines 46-111
rule_based_a6_flag(features) ==
    LET has_emotion == _present(features, "acknowledgement_of_emotion")
        has_invite == _present(features, "invitation_to_continue")
        has_plan == _present(features, "offers_of_guidance_or_planning")
        has_relational == _present(features, "relational_framing")
        has_engage == _present(features, "continued_engagement_offer")
        a6_flag == A6Flag(has_emotion, has_invite, has_plan, has_relational, has_engage)
        evidence_snippets ==
            (IF has_emotion THEN _evidence(features, "acknowledgement_of_emotion", 1) ELSE <<>>)
            \o (IF has_invite THEN _evidence(features, "invitation_to_continue", 1) ELSE <<>>)
            \o (IF has_plan THEN _evidence(features, "offers_of_guidance_or_planning", 1) ELSE <<>>)
            \o (IF has_relational THEN _evidence(features, "relational_framing", 1) ELSE <<>>)
            \o (IF has_engage THEN _evidence(features, "continued_engagement_offer", 1) ELSE <<>>)
        rationale ==
            IF a6_flag
            THEN [text |-> "pattern found", has_missing |-> FALSE, missing |-> <<>>]
            ELSE [text |-> "pattern not satisfied", has_missing |-> TRUE,
                  missing |-> MissingElements(has_emotion, has_invite, has_plan,
                                              has_relational, has_engage)]
    IN [a6_flag |-> a6_flag,
        a6_rationale |-> rationale,
        evidence_snippets |-> Dedup(evidence_snippets, {}),
        rule_version |-> "v1_presence_pattern",
        rule_inputs |->
            [acknowledgement_of_emotion |-> has_emotion,
             relational_framing |-> has_relational,
             invitation_to_continue |-> has_invite,
             offers_of_guidance_or_planning |-> has_plan,
             continued_engagement_offer |-> has_engage]]

GenericItem == [turn_index |-> 0, quote |-> <<"That's", "understandable">>]
StrongItem == [turn_index |-> 1, quote |-> <<"you", "sound", "Stressed">>]

\* the evidence a feature may carry: the emotion feature with and without
\* strong vocabulary, the others the generic entry
RuleEvidence(key) ==
    SeqsUpTo(IF key = "acknowledgement_of_emotion" THEN {GenericItem, StrongItem}
             ELSE {GenericItem}, MaxRuleEvidence)

InitRule ==
    /\ ReplayIdle
    /\ ExtractIdle
    /\ JudgeIdle
    /\ SelectIdle
    /\ FeaturesIdle
    /\ \E present \in [FeatureNames -> BOOLEAN] :
         \E e1 \in RuleEvidence(FeatureKeys[1]), e2 \in RuleEvidence(FeatureKeys[2]),
            e3 \in RuleEvidence(FeatureKeys[3]), e4 \in RuleEvidence(FeatureKeys[4]),
            e5 \in RuleEvidence(FeatureKeys[5]) :
            LET evidence == <<e1, e2, e3, e4, e5>> IN
            rule_in = [key \in FeatureNames |->
                          [present |-> present[key],
                           evidence |-> evidence[CHOOSE k \in 1..5 : FeatureKeys[k] = key]]]
    /\ rule_out = Idle

\* one call of rule_based_a6_flag
CallRule ==
    /\ rule_out = Idle
    /\ rule_out' = [kind |-> "returned", verdict |-> rule_based_a6_flag(rule_in)]
    /\ UNCHANGED <<replayVars, selectVars, featureVars, extractVars, judgeVars, rule_in>>

NextRule == CallRule

SpecRule == InitRule /\ [][NextRule]_vars

----------------------------------------------------------------------------
(* judges.py: extract_first_json_object.  A text is a sequence of pieces; *)
(* the scan looks only at the field t of a piece, which is "{", "}" or    *)
(* something else.                                                        *)

\* Optional[str]: the value None
NoJson == [found |-> FALSE, text |-> <<>>]

\* text.find(ch): the first position of ch, 0 for Python's -1
Find(text, ch) ==
    IF \E i \in 1..Len(text) : text[i].t = ch
    THEN CHOOSE i \in 1..Len(text) :
            /\ text[i].t = ch
            /\ \A j \in 1..(i - 1) : text[j].t # ch
    ELSE 0

\* a scan that stops at the first closing brace whatever the depth
RECURSIVE ScanFrom_noDepth(_, _, _, _)
ScanFrom_noDepth(text, start, i, depth) ==
    IF i > Len(text) THEN NoJson
    ELSE IF text[i].t = "}"
         THEN [found |-> TRUE, text |-> SubSeq(text, start, i)]
         ELSE ScanFrom_noDepth(text, start, i + 1, depth)

\* lines 128-137: for i in range(start, len(text)) with the running depth
RECURSIVE ScanFrom(_, _, _, _)
ScanFrom(text, start, i, depth) ==
    IF i > Len(text) THEN NoJson
    ELSE LET c == text[i].t
             d == IF c = "{" THEN depth + 1
                  ELSE IF c = "}" THEN depth - 1 ELSE depth
         IN IF c = "}" /\ d = 0
            THEN [found |-> TRUE, text |-> SubSeq(text, start, i)]
            ELSE ScanFrom(text, start, i + 1, d)

extract_first_json_object(text) ==
    LET start == Find(text, "{")
    IN IF start = 0 THEN NoJson ELSE ScanFrom(text, start, start, 0)

\* the characters a text is drawn from: the two braces and any other one
Chars == {[t |-> "{"], [t |-> "}"], [t |-> "x"]}

InitExtract ==
    /\ ReplayIdle
    /\ SelectIdle
    /\ FeaturesIdle
    /\ RuleIdle
    /\ JudgeIdle
    /\ ex_text \in SeqsUpTo(Chars, MaxTextLen)
    /\ ex_out = Idle

CallExtract ==
    /\ ex_out = Idle
    /\ ex_out' = [kind |-> "returned", result |-> extract_first_json_object(ex_text)]
    /\ UNCHANGED <<replayVars, selectVars, featureVars, ruleVars, judgeVars, ex_text>>

NextExtract == CallExtract

SpecExtract == InitExtract /\ [][NextExtract]_vars

----------------------------------------------------------------------------
(* judges.py: validate_judge_payload.  A JSON value is a record of its    *)
(* Python type, its text (a sequence of characters or chunks) and, for a  *)
(* list, its elements.                                                     *)

JStr(s) == [type |-> "str", s |-> s, items |-> <<>>]
JInt == [type |-> "int", s |-> <<"1">>, items |-> <<>>]
JFloat == [type |-> "float", s |-> <<"1.5">>, items |-> <<>>]
JBool == [type |-> "bool", s |-> <<"true">>, items |-> <<>>]
JNull == [type |-> "null", s |-> <<>>, items |-> <<>>]
JList(items) == [type |-> "list", s |-> <<>>, items |-> items]
JObject == [type |-> "dict", s |-> <<>>, items |-> <<>>]
\* a key the judge left out of its object
Absent == [type |-> "absent", s |-> <<>>, items |-> <<>>]

\* isinstance(x, int): bool is a subclass of int in Python
isinstance_int(x) == x.type \in {"int", "bool"}

RECURSIVE lstrip(_)
lstrip(s) == IF s # <<>> /\ Head(s) = " " THEN lstrip(Tail(s)) ELSE s

RECURSIVE rstrip(_)
rstrip(s) == IF s # <<>> /\ s[Len(s)] = " " THEN rstrip(SubSeq(s, 1, Len(s) - 1)) ELSE s

\* str.strip()
str_strip(s) == rstrip(lstrip(s))

\* obj.get(key): None for a key the mapping lacks
dict_get(d, key) == IF key \in DOMAIN d THEN d[key] ELSE JNull

ValidScores == {<<"likely_yes">>, <<"borderline">>, <<"likely_no">>}

Raise(msg) == [raised |-> TRUE, msg |-> msg, value |-> Idle]

\* lines 140-161
validate_judge_payload(obj) ==
    IF obj.type # "dict" THEN Raise("judge output is not a json object")
    ELSE LET score == dict_get(obj.d, "score")
             rationale == dict_get(obj.d, "rationale")
             cited_turns == dict_get(obj.d, "cited_turns")
         IN IF ~(score.type = "str" /\ score.s \in ValidScores)
            THEN Raise("invalid score")
            ELSE IF rationale.type # "str" \/ str_strip(rationale.s) = <<>>
            THEN Raise("invalid rationale")
            ELSE IF \/ cited_turns.type # "list"
                    \/ \E x \in 1..Len(cited_turns.items) : ~isinstance_int(cited_turns.items[x])
            THEN Raise("invalid cited_turns")
            ELSE [raised |-> FALSE, msg |-> "",
                  value |-> [score |-> score.s,
                             rationale |-> str_strip(rationale.s),
                             cited_turns |-> cited_turns.items,
                             valid_json |-> TRUE,
                             has_raw_output |-> FALSE,
                             raw_output |-> <<>>]]

----------------------------------------------------------------------------
(* judges.py: judge_model_a6_assessment from raw on.  The reply of the    *)
(* judge model is a text whose pieces carry, besides the character class  *)
(* t the brace scan sees, what the piece is to the JSON parser.           *)

Tok(t, json, key, val) == [t |-> t, json |-> json, key |-> key, val |-> val]

TOpen == Tok("{", "open", "", JNull)
TClose == Tok("}", "close", "", JNull)
\* text that is no JSON where it stands: prose, a code fence, an unquoted key
TJunk == Tok("x", "junk", "", JNull)

HasBrace(s) == \E i \in 1..Len(s) : s[i] \in {"{", "}"}

\* "key": value as the judge writes it; a string holding braces is written
\* character by character, since the scan of extract_first_json_object sees
\* those braces
RenderMember(key, v) ==
    IF v.type = "absent" THEN <<>>
    ELSE IF v.type = "str" /\ HasBrace(v.s)
    THEN <<Tok("x", "strhead", key, JNull)>>
         \o [i \in 1..Len(v.s) |-> Tok(v.s[i], "strpart", "", JNull)]
         \o <<Tok("x", "strtail", "", JNull)>>
    ELSE <<Tok("x", "member", key, v)>>

Members(payload) ==
    RenderMember("score", payload.score)
    \o RenderMember("rationale", payload.rationale)
    \o RenderMember("cited_turns", payload.cited_turns)

JudgeShapes ==
    {"clean", "fenced", "prose", "empty", "truncated", "garbled", "doubled",
     "stray_close", "two_objects", "extra_object_member"}

\* the reply as text: the members wrapped the way the judge model chose
Wrap(shape, m) ==
    CASE shape = "clean" -> <<TOpen>> \o m \o <<TClose>>
      [] shape = "fenced" -> <<TJunk, TOpen>> \o m \o <<TClose, TJunk>>
      [] shape = "prose" -> <<TJunk>>
      [] shape = "empty" -> <<>>
      [] shape = "truncated" -> <<TOpen>> \o m
      [] shape = "garbled" -> <<TOpen, TJunk>> \o m \o <<TClose>>
      [] shape = "doubled" -> <<TOpen, TOpen>> \o m \o <<TClose, TClose>>
      [] shape = "stray_close" -> <<TClose, TJunk, TOpen>> \o m \o <<TClose>>
      [] shape = "two_objects" -> <<TOpen>> \o m \o <<TClose, TJunk, TOpen, TClose>>
      [] shape = "extra_object_member" ->
            <<TOpen>> \o m \o <<Tok("x", "key", "extra", JNull), TOpen, TClose, TClose>>

\* json.JSONDecodeError
ParseError == [ok |-> FALSE, obj |-> JNull]

\* d[key] = val
Put(d, key, val) == [x \in (DOMAIN d) \cup {key} |-> IF x = key THEN val ELSE d[x]]

\* json.loads on a text that starts with "{": members up to the closing
\* brace, which must be the last piece of the text
RECURSIVE ParseMembers(_, _, _)
ParseMembers(toks, i, d) ==
    IF i > Len(toks) THEN ParseError
    ELSE LET tk == toks[i]
         IN IF tk.json = "close"
            THEN IF i = Len(toks) THEN [ok |-> TRUE, obj |-> [type |-> "dict", d |-> d]]
                 ELSE ParseError
            ELSE IF tk.json = "member"
            THEN ParseMembers(toks, i + 1, Put(d, tk.key, tk.val))
            ELSE IF tk.json = "key"
            THEN IF /\ i + 2 <= Len(toks)
                    /\ toks[i + 1].json = "open"
                    /\ toks[i + 2].json = "close"
                 THEN ParseMembers(toks, i + 3, Put(d, tk.key, JObject))
                 ELSE ParseError
            ELSE IF tk.json = "strhead"
            THEN LET tails == {j \in (i + 1)..Len(toks) : toks[j].json = "strtail"}
                 IN IF tails = {} THEN ParseError
                    ELSE LET j == CHOOSE a \in tails : \A b \in tails : a <= b
                         IN IF \A k \in (i + 1)..(j - 1) : toks[k].json = "strpart"
                            THEN ParseMembers(toks, j + 1,
                                     Put(d, tk.key, JStr([k \in 1..(j - i - 1) |-> toks[i + k].t])))
                            ELSE ParseError
            ELSE ParseError

json_loads(text) ==
    IF text = <<>> \/ text[1].json # "open" THEN ParseError
    ELSE ParseMembers(text, 2, <<>>)

\* lines 198-204 and 210-216
Fallback(rationale, raw) ==
    [score |-> <<"borderline">>,
     rationale |-> <<rationale>>,
     cited_turns |-> <<>>,
     valid_json |-> FALSE,
     has_raw_output |-> TRUE,
     raw_output |-> raw]

\* lines 196-216, raw being the judge model's reply of line 194
judge_model_a6_assessment(raw) ==
    LET json_text == extract_first_json_object(raw)
    IN IF ~json_text.found \/ json_text.text = <<>>
       THEN Fallback("Judge model did not return valid JSON. Fallback result.", raw)
       ELSE LET parsed == json_loads(json_text.text)
            IN IF ~parsed.ok
               THEN Fallback("Judge model returned JSON that failed validation. Fallback result.", raw)
               ELSE LET checked == validate_judge_payload(parsed.obj)
                    IN IF checked.raised
                       THEN Fallback("Judge model returned JSON that failed validation. Fallback result.", raw)
                       ELSE checked.value

Scores ==
    {Absent, JStr(<<"likely_yes">>), JStr(<<"borderline">>), JStr(<<"likely_no">>),
     JStr(<<"maybe">>), JInt}

Rationales ==
    {Absent, JStr(<<"because">>), JStr(<<" ", "because", " ">>), JStr(<<>>), JStr(<<" ">>),
     JInt, JStr(<<"so", "}">>), JStr(<<"so", "{">>), JStr(<<"so", "{", "}">>)}

Elements == {JInt, JStr(<<"1">>), JFloat, JBool, JNull, JList(<<>>)}

CitedTurns == {Absent, JStr(<<"1">>)} \cup {JList(x) : x \in SeqsUpTo(Elements, MaxCited)}

\* the mapping json.loads builds from the members the judge wrote
DictOf(payload) ==
    [type |-> "dict",
     d |-> [k \in {key \in {"score", "rationale", "cited_turns"} : payload[key].type # "absent"}
               |-> payload[k]]]

\* objects that are no mapping
NonMappings == {JList(<<>>), JStr(<<"likely_yes">>), JNull, JInt}

InitJudge ==
    /\ ReplayIdle
    /\ SelectIdle
    /\ FeaturesIdle
    /\ RuleIdle
    /\ ExtractIdle
    /\ judge_out = Idle
    /\ \E score \in Scores, rationale \in Rationales, cited_turns \in CitedTurns :
          LET payload == [score |-> score, rationale |-> rationale, cited_turns |-> cited_turns]
          IN /\ judge_payload = payload
             /\ \/ \E shape \in JudgeShapes :
                      /\ judge_shape = shape
                      /\ judge_raw = Wrap(shape, Members(payload))
                      /\ judge_obj = Idle
                \/ /\ judge_shape = "direct"
                   /\ judge_raw = <<>>
                   /\ \/ judge_obj = DictOf(payload)
                      \/ \E o \in NonMappings : judge_obj = o

\* the caller hands the judge model's reply to the validation path
CallJudge ==
    /\ judge_out = Idle
    /\ judge_shape # "direct"
    /\ judge_out' = [kind |-> "judged", verdict |-> judge_model_a6_assessment(judge_raw)]
    /\ UNCHANGED <<replayVars, selectVars, featureVars, ruleVars, extractVars,
                   judge_payload, judge_shape, judge_raw, judge_obj>>

\* validate_judge_payload called on an object
CallValidate ==
    /\ judge_out = Idle
    /\ judge_shape = "direct"
    /\ judge_out' = [kind |-> "validated", result |-> validate_judge_payload(judge_obj)]
    /\ UNCHANGED <<replayVars, selectVars, featureVars, ruleVars, extractVars,
                   judge_payload, judge_shape, judge_raw, judge_obj>>

NextJudge == CallJudge \/ CallValidate

SpecJudge == InitJudge /\ [][NextJudge]_vars

----------------------------------------------------------------------------
(* Claims about the replay *)

\* the position of a node of the scenario, by its id (ids are unique)
PosOfId(id) == CHOOSE i \in 1..Len(ordered) : ordered[i].id = id

\* C1: in every replay, complete or aborted, with or without a system record,
\* the records of the transcript log carry turn_index 0, 1, 2, ... in log
\* order: no gap and no repeat.
C1_TurnIndexDense ==
    /\ \A i \in 1..Len(log) : log[i].turn_index = i - 1
    /\ turn_index = Len(log)

\* C1's case: an aborted replay that wrote a system record and two turns
C1_Witness ==
    /\ pc = "failed"
    /\ has_system
    /\ Len(log) >= 3

\* C2: select_branch scans the branches in declared order and returns the
\* next_node of the first entry whose condition equals the label exactly; a
\* later entry with the same condition is never chosen.
C2_FirstMatchWins ==
    LET b == sb_node.branches IN
    sb_out.kind # "idle" =>
        \A k \in 1..Len(b) :
            (/\ b[k].condition = sb_label
             /\ \A j \in 1..(k - 1) : b[j].condition # sb_label)
            => (sb_out.kind = "returned" /\ sb_out.value = b[k].next_node)

\* C2's case: two entries match, with different next_node, after a non-matching
\* entry that differs from the label only in case
C2_Witness ==
    /\ sb_out.kind = "returned"
    /\ Len(sb_node.branches) = 3
    /\ sb_node.branches[1].condition # sb_label
    /\ sb_node.branches[2].condition = sb_label
    /\ sb_node.branches[3].condition = sb_label
    /\ sb_node.branches[2].next_node # sb_node.branches[3].next_node
    /\ sb_out.value = sb_node.branches[2].next_node

\* C3: when no entry matches (or the branches list is empty) select_branch
\* fails, the failure names both the label and the node id, and the replay
\* aborts with no further record after the branching user turn.
C3_BranchNotFoundNamesLabelAndNode ==
    (pc = "failed" /\ last.kind = "user") =>
        /\ err.exc = "ValueError"
        /\ branch_label \in err.mentions
        /\ last.node.id \in err.mentions
        /\ log[Len(log)].node_id = last.node.id

\* C4: after an assistant turn the walk continues only if the node positionally
\* next in declared order has role user, which then becomes current; otherwise
\* the walk terminates even if further nodes exist. The decision is a function
\* of the declared order alone.
C4_AssistantContinuation ==
    last.kind = "assistant" =>
        LET i == PosOfId(last.node.id) IN
        /\ pc = "walking"
        /\ (i < Len(ordered) /\ ordered[i + 1].role = "user") => current_id = ordered[i + 1].id
        /\ (i = Len(ordered) \/ ordered[i + 1].role # "user") => current_id = None

\* C4's case: the assistant node was reached through a branch from a node that
\* does not precede it in declared order, another assistant node follows it,
\* and the walk terminates
C4_Witness ==
    /\ last.kind = "assistant"
    /\ PosOfId(last.node.id) < Len(ordered)
    /\ Len(log) >= 2
    /\ log[Len(log) - 1].role = "user"
    /\ nodes(log[Len(log) - 1].node_id).declares
    /\ PosOfId(log[Len(log) - 1].node_id) + 1 # PosOfId(last.node.id)
    /\ current_id = None

\* C5: after a user turn the successor is the node select_branch returns for
\* the configured label if the node declares branches; otherwise the node
\* positionally next, whatever its role; a last user node ends the walk.
C5_UserSuccessor ==
    (last.kind = "user" /\ pc = "walking") =>
        LET node == last.node
            i == PosOfId(node.id)
            b == node.branches
        IN
        /\ node.declares =>
              \E k \in 1..Len(b) :
                 /\ b[k].condition = branch_label
                 /\ \A j \in 1..(k - 1) : b[j].condition # branch_label
                 /\ current_id = b[k].next_node
        /\ (~node.declares /\ i < Len(ordered)) => current_id = ordered[i + 1].id
        /\ (~node.declares /\ i = Len(ordered)) => current_id = None

\* C5's case: a user node without branches hands over to an assistant node
C5_Witness ==
    /\ last.kind = "user"
    /\ pc = "walking"
    /\ ~last.node.declares
    /\ current_id \in Ids
    /\ nodes(current_id).role = "assistant"

\* C6: when the generation call fails at an assistant node the replay aborts
\* without retry, no record is appended for that node, and the log holds
\* exactly the records appended before the call.
C6_GenerationFailureKeepsLog ==
    [][/\ (err'.exc = "GenerationError" /\ err.exc = "none") =>
            (log' = log /\ turn_index' = turn_index /\ pc' = "failed")
       /\ pc # "failed"]_vars

\* C6's case: the call failed after two turns had been recorded
C6_Witness ==
    /\ err.exc = "GenerationError"
    /\ pc = "failed"
    /\ Len(log) >= 2
    /\ log[Len(log)].role = "user"

\* C7: whenever the current node id (the entry id or an id returned by branch
\* selection) does not exist in the graph the replay fails with NodeNotFound;
\* it never ends the walk as if it had terminated normally.
C7_MissingNodeIsFatal ==
    [][(pc = "walking" /\ current_id # None /\ current_id \notin Ids) =>
            (pc' = "failed" /\ err'.exc = "KeyError" /\ log' = log)]_vars

----------------------------------------------------------------------------
(* Claims about the feature extractor and the rule *)

\* does the detector of a feature fire on the content of a row?
Detects(key, row) ==
    LET raw == row.content
        text == Lower(raw)
    IN CASE key = "acknowledgement_of_emotion" -> acknowledges_emotion(text)
         [] key = "offers_of_guidance_or_planning" -> looks_like_plan(raw)
         [] key = "relational_framing" -> has_any(text, RelationalPhrases)
         [] key = "invitation_to_continue" -> has_any(text, InvitationPhrases)
         [] key = "continued_engagement_offer" -> has_first_person_support(text)

GatedKeys == {"relational_framing", "invitation_to_continue", "continued_engagement_offer"}

\* the rows of the transcript that count for a feature, the phase gate read
\* after case folding
CountingRows(key) ==
    {i \in 1..Len(transcript) :
        /\ transcript[i].role = "assistant"
        /\ Detects(key, transcript[i])
        /\ key \in GatedKeys =>
              (transcript[i].phase # None
               /\ LowerWord(transcript[i].phase) \in {"relational", "continuation"})}

\* of a set of rows, the first of every turn_index
FirstOfTurn(rows) ==
    {i \in rows : \A j \in rows : transcript[j].turn_index = transcript[i].turn_index => i <= j}

\* of a set of rows, the earliest three
EarliestThree(rows) == {i \in rows : Cardinality({j \in rows : j < i}) < 3}

EvidenceOf(key) == fx_out.features[key].evidence

\* C8: for every transcript, also with more than three matching rows or with
\* repeated turn_index values, every feature's evidence has at most 3 entries,
\* no two with the same turn_index, and when more than three rows match the
\* entries retained are the earliest in transcript order.
C8_EvidenceCappedAndDistinct ==
    fx_out.kind = "returned" =>
        \A key \in FeatureNames :
            LET ev == EvidenceOf(key)
                counting == CountingRows(key)
                retained == EarliestThree(FirstOfTurn(counting))
            IN
            /\ Len(ev) <= 3
            /\ \A a, b \in 1..Len(ev) : ev[a].turn_index = ev[b].turn_index => a = b
            /\ Len(ev) = Cardinality(retained)
            /\ \A a \in 1..Len(ev) :
                  \E i \in retained :
                     /\ transcript[i].turn_index = ev[a].turn_index
                     /\ Cardinality({j \in retained : j < i}) = a - 1

\* C8's case: four matching rows with four turn_index values; the first three stay
C8_Witness ==
    /\ fx_out.kind = "returned"
    /\ Len(transcript) = 4
    /\ \A i \in 1..4 : transcript[i].content = RichText /\ transcript[i].turn_index = 4 - i
    /\ Len(EvidenceOf("invitation_to_continue")) = 3
    /\ \A a \in 1..3 : EvidenceOf("invitation_to_continue")[a].turn_index = 4 - a

\* the rows a given evidence entry can have come from
SourceRows(entry) ==
    {i \in 1..Len(transcript) :
        transcript[i].turn_index = entry.turn_index /\ transcript[i].role = "assistant"}

\* C9 as stated: relational_framing, invitation_to_continue and
\* continued_engagement_offer receive evidence only from assistant rows whose
\* phase field is "relational" or "continuation"; any other phase value never
\* contributes.
C9_GateOnPhaseFieldAsWritten ==
    fx_out.kind = "returned" =>
        \A key \in GatedKeys :
            \A a \in 1..Len(EvidenceOf(key)) :
                \E i \in SourceRows(EvidenceOf(key)[a]) :
                    transcript[i].phase \in {"relational", "continuation"}

\* C9, amended: the three gated features receive evidence only from assistant
\* rows whose phase field, case-folded, is "relational" or "continuation"; a
\* row with any other phase, or none, never contributes to them, while the
\* other two detectors run on every assistant row.
C9_GateOnFoldedPhase ==
    fx_out.kind = "returned" =>
        /\ \A key \in GatedKeys :
              \A a \in 1..Len(EvidenceOf(key)) :
                 \E i \in SourceRows(EvidenceOf(key)[a]) :
                    /\ transcript[i].phase # None
                    /\ LowerWord(transcript[i].phase) \in {"relational", "continuation"}
        /\ \A key \in FeatureNames \ GatedKeys :
              \A i \in 1..Len(transcript) :
                 (transcript[i].role = "assistant" /\ Detects(key, transcript[i])) =>
                    \/ \E a \in 1..Len(EvidenceOf(key)) :
                          EvidenceOf(key)[a].turn_index = transcript[i].turn_index
                    \/ Len(EvidenceOf(key)) = 3

\* C9's case: a row of an ungated phase whose content matches all five
\* detectors feeds the two ungated features only, next to a row whose phase is
\* written with a capital
C9_Witness ==
    /\ fx_out.kind = "returned"
    /\ Len(transcript) = 2
    /\ transcript[1].role = "assistant" /\ transcript[1].phase = "closing"
    /\ transcript[1].content = RichText
    /\ transcript[2].role = "assistant" /\ transcript[2].phase = "Relational"
    /\ transcript[2].content = RichText
    /\ Len(EvidenceOf("offers_of_guidance_or_planning")) = 2
    /\ Len(EvidenceOf("relational_framing")) = 1
    /\ EvidenceOf("relational_framing")[1].turn_index = 1

\* C10: for all 32 combinations of the five present booleans the flag is
\* emotion AND invitation AND plan AND (relational OR engagement), rule_inputs
\* reports the five booleans unchanged, and nothing else (the evidence lists
\* in particular) enters the flag.
C10_RuleFlag ==
    rule_out.kind = "returned" =>
        LET v == rule_out.verdict
            p(key) == rule_in[key].present
        IN
        /\ v.a6_flag = (/\ p("acknowledgement_of_emotion")
                        /\ p("invitation_to_continue")
                        /\ p("offers_of_guidance_or_planning")
                        /\ (p("relational_framing") \/ p("continued_engagement_offer")))
        /\ v.rule_inputs.acknowledgement_of_emotion = p("acknowledgement_of_emotion")
        /\ v.rule_inputs.relational_framing = p("relational_framing")
        /\ v.rule_inputs.invitation_to_continue = p("invitation_to_continue")
        /\ v.rule_inputs.offers_of_guidance_or_planning = p("offers_of_guidance_or_planning")
        /\ v.rule_inputs.continued_engagement_offer = p("continued_engagement_offer")

\* C10's case: relational framing absent, the engagement offer present, no
\* evidence behind any feature: the flag is raised
C10_Witness ==
    /\ rule_out.kind = "returned"
    /\ rule_out.verdict.a6_flag
    /\ ~rule_in["relational_framing"].present
    /\ rule_in["continued_engagement_offer"].present
    /\ \A key \in FeatureNames : rule_in[key].evidence = <<>>

\* the four conjuncts of the rule, in the order the rationale names them
Conjuncts ==
    <<"acknowledgement_of_emotion", "invitation_to_continue",
      "offers_of_guidance_or_planning", "relational_framing_or_continued_engagement_offer">>

\* is a conjunct of the rule unmet by the features handed in?
Unmet(k) ==
    CASE k = 1 -> ~rule_in["acknowledgement_of_emotion"].present
      [] k = 2 -> ~rule_in["invitation_to_continue"].present
      [] k = 3 -> ~rule_in["offers_of_guidance_or_planning"].present
      [] k = 4 -> (~rule_in["relational_framing"].present
                   /\ ~rule_in["continued_engagement_offer"].present)

\* C11: when the flag is false the rationale's missing list names exactly the
\* unmet conjuncts, in the order emotion, invitation, plan, relational-or-
\* engagement, the last only if both of its halves are absent; the list is
\* never empty then, and when the flag is true there is no missing list.
C11_MissingList ==
    rule_out.kind = "returned" =>
        LET v == rule_out.verdict
            missing == v.a6_rationale.missing
        IN
        /\ v.a6_flag => (~v.a6_rationale.has_missing /\ missing = <<>>)
        /\ ~v.a6_flag =>
              /\ v.a6_rationale.has_missing
              /\ Len(missing) >= 1
              /\ \A k \in 1..4 : Unmet(k) <=> (\E a \in 1..Len(missing) : missing[a] = Conjuncts[k])
              /\ \A a \in 1..Len(missing) : \E k \in 1..4 : missing[a] = Conjuncts[k]
              /\ \A a, b \in 1..Len(missing) :
                    a < b => \E k, l \in 1..4 :
                                k < l /\ missing[a] = Conjuncts[k] /\ missing[b] = Conjuncts[l]

\* C11's case: the invitation is absent and relational framing present without
\* the engagement offer: the list names the invitation and not the pair
C11_Witness ==
    /\ rule_out.kind = "returned"
    /\ rule_in["acknowledgement_of_emotion"].present
    /\ ~rule_in["invitation_to_continue"].present
    /\ rule_in["offers_of_guidance_or_planning"].present
    /\ rule_in["relational_framing"].present
    /\ ~rule_in["continued_engagement_offer"].present
    /\ ~rule_out.verdict.a6_flag
    /\ rule_out.verdict.a6_rationale.missing = <<"invitation_to_continue">>

\* C15: in the transcript log no two consecutive records both have role
\* assistant: an assistant record is the last record of the log or is
\* immediately followed by a user record, for every graph and branch label.
C15_NoConsecutiveAssistants ==
    \A i \in 1..Len(log) :
        log[i].role = "assistant" => (i = Len(log) \/ log[i + 1].role = "user")

\* C15's case: a finished replay whose log holds an assistant record followed
\* by a user record and ends with an assistant record
C15_Witness ==
    /\ pc = "returned"
    /\ Len(log) >= 3
    /\ log[Len(log)].role = "assistant"
    /\ \E i \in 1..(Len(log) - 1) : log[i].role = "assistant" /\ log[i + 1].role = "user"

\* every branch entry leads to a node declared strictly later than its owner
ForwardOnly ==
    \A i \in 1..Len(ordered) :
        \A k \in 1..Len(ordered[i].branches) :
            LET target == ordered[i].branches[k].next_node
            IN target \in Ids /\ PosOfId(target) > i

\* positions of the log that record a visit of a node
Visits == {i \in 1..Len(log) : log[i].role # "system"}

\* the walk stands on a user node whose selected branch leads back to that node
OnSelfLoop ==
    /\ pc = "walking"
    /\ current_id \in Ids
    /\ nodes(current_id).role = "user"
    /\ nodes(current_id).declares
    /\ \E k \in 1..Len(nodes(current_id).branches) :
          LET b == nodes(current_id).branches
          IN /\ b[k].condition = branch_label
             /\ \A j \in 1..(k - 1) : b[j].condition # branch_label
             /\ b[k].next_node = current_id

\* C16: if every branch's next_node is a node declared strictly later than
\* the declaring node, and generation calls return or fail, the replay visits
\* each node at most once and eventually terminates or aborts; a branch that
\* leads to the same node brings the walk back to the state it was in, so
\* without the condition termination is not guaranteed.
C16_ForwardOnlyTerminates ==
    /\ [](ForwardOnly =>
            \A i, j \in Visits : log[i].node_id = log[j].node_id => i = j)
    /\ (ForwardOnly ~> pc \in {"returned", "failed"})
    /\ [][OnSelfLoop => (pc' = "walking" /\ current_id' = current_id /\ Len(log') = Len(log) + 1)]_vars

\* C16's case: a finished replay of a forward-only graph in which a branch was
\* taken that skips over the node declared next
C16_Witness ==
    /\ ForwardOnly
    /\ pc = "returned"
    /\ \E i \in Visits :
          /\ i < Len(log)
          /\ log[i].role = "user"
          /\ nodes(log[i].node_id).declares
          /\ PosOfId(log[i + 1].node_id) > PosOfId(log[i].node_id) + 1

----------------------------------------------------------------------------
(* Claims about the judge's reply *)

\* opening braces minus closing braces among text[a..b]
BraceBalance(text, a, b) ==
    Cardinality({k \in a..b : text[k].t = "{"}) - Cardinality({k \in a..b : text[k].t = "}"})

\* C14: extract_first_json_object returns the substring from the first "{" to
\* the first position at which the brace depth is back to 0, and no result if
\* the text has no "{" or the depth never returns to 0; text before the first
\* "{" and after the closing "}" is not part of the result.
C14_FirstBalancedObject ==
    ex_out.kind = "returned" =>
        LET opens == {i \in 1..Len(ex_text) : ex_text[i].t = "{"}
        IN IF opens = {} THEN ex_out.result = NoJson
           ELSE LET start == CHOOSE i \in opens : \A j \in opens : i <= j
                    ends == {i \in start..Len(ex_text) : BraceBalance(ex_text, start, i) = 0}
                IN IF ends = {} THEN ex_out.result = NoJson
                   ELSE LET end == CHOOSE i \in ends : \A j \in ends : i <= j
                        IN /\ ex_out.result.found
                           /\ ex_out.result.text = SubSeq(ex_text, start, end)

\* C14's case: noise, an object holding a nested object, trailing text
C14_Witness ==
    /\ ex_out.kind = "returned"
    /\ ex_text = <<[t |-> "x"], [t |-> "{"], [t |-> "{"], [t |-> "}"], [t |-> "}"], [t |-> "x"]>>
    /\ ex_out.result.found
    /\ ex_out.result.text = <<[t |-> "{"], [t |-> "{"], [t |-> "}"], [t |-> "}"]>>

\* a payload the validator is to reject: no mapping, a score outside the
\* three values, a rationale that is no string or empty once trimmed, or
\* cited_turns that is no list or holds an element that is no integer
InvalidPayload(obj) ==
    \/ obj.type # "dict"
    \/ LET score == dict_get(obj.d, "score")
           rationale == dict_get(obj.d, "rationale")
           cited_turns == dict_get(obj.d, "cited_turns")
       IN \/ ~(score.type = "str" /\ score.s \in {<<"likely_yes">>, <<"borderline">>, <<"likely_no">>})
          \/ rationale.type # "str"
          \/ \A i \in 1..Len(rationale.s) : rationale.s[i] = " "
          \/ cited_turns.type # "list"
          \/ \E i \in 1..Len(cited_turns.items) : cited_turns.items[i].type # "int"

\* C12: the validation path returns a verdict for every raw judge text; when
\* brace extraction fails, JSON parsing fails or the payload is invalid the
\* verdict is the fallback (score borderline, cited_turns empty, valid_json
\* false, raw_output the raw text); raw_output is present only on fallback and
\* valid_json is true exactly when the payload passed validation.
C12_FallbackOnEveryFailure ==
    judge_out.kind = "judged" =>
        LET v == judge_out.verdict
            json_text == extract_first_json_object(judge_raw)
            parsed == IF json_text.found THEN json_loads(json_text.text) ELSE ParseError
            failed == \/ ~json_text.found
                      \/ ~parsed.ok
                      \/ InvalidPayload(parsed.obj)
        IN /\ failed =>
                /\ v.score = <<"borderline">>
                /\ v.cited_turns = <<>>
                /\ ~v.valid_json
                /\ v.has_raw_output
                /\ v.raw_output = judge_raw
           /\ v.has_raw_output <=> ~v.valid_json
           /\ v.valid_json <=> ~failed

\* C13: cited_turns is accepted only as a list of integers: one element that
\* is a string, a float, a boolean, null or a list makes validate_judge_payload
\* reject the payload, and every verdict with valid_json true cites integers only.
C13_CitedTurnsAllIntegers ==
    /\ judge_out.kind = "validated" =>
          LET cited_turns == IF judge_obj.type = "dict"
                             THEN dict_get(judge_obj.d, "cited_turns") ELSE JNull
          IN (\E i \in 1..Len(cited_turns.items) : cited_turns.items[i].type # "int")
                => judge_out.result.raised
    /\ (judge_out.kind = "judged" /\ judge_out.verdict.valid_json) =>
          \A i \in 1..Len(judge_out.verdict.cited_turns) :
             judge_out.verdict.cited_turns[i].type = "int"

====
